---- MODULE Spec2Model ----
(***************************************************************************)
(* Model of src/traits.rs: the WalletError and TxDepProviderError enums,   *)
(* the conversions derived on them, the TransactionDependencyProvider      *)
(* trait with its one implementation EmptyTxDepProvider, and the exclusive *)
(* borrow (&mut dyn TransactionDependencyProvider) that Wallet::sign takes. *)
(***************************************************************************)
EXTENDS Integers, Sequences, FiniteSets, TLC

\* ---------------------------------------------------------------- bounds
MaxKey == 1
MaxLog == 3
MaxBoxErr == 9
NumProviders == 1
NumThreads == 2
MaxCalls == 2
MaxTx == 0

Keys == 0..MaxKey
Txs == 0..MaxTx
BoxErrors == 1..MaxBoxErr
Providers == 1..NumProviders
Threads == 1..NumThreads

VARIABLES provider, log, depErr, walletErr, nativeErr, borrow, pc, prov, tx, callId, nextCall

vars == <<provider, log, depErr, walletErr, nativeErr, borrow, pc, prov, tx, callId, nextCall>>

\* ---------------------------------------------------------------- values
\* Option::None, for a slot that holds no error yet
None == [tag |-> "None"]

\* Result<T, E>
Ok(v) == [ok |-> TRUE, val |-> v]

Err(e) == [ok |-> FALSE, err |-> e]

\* enum TxDepProviderError { NotFound, Other(Box<dyn Error>) }
NotFound == [tag |-> "NotFound"]

TxDepOther(x) == [tag |-> "Other", inner |-> x]

\* impl From<Box<dyn Error>> for TxDepProviderError, derived by #[from]
From_Box_TxDepProviderError(x) == TxDepOther(x)

TxDepProviderErrorSet == {NotFound} \cup {From_Box_TxDepProviderError(x) : x \in BoxErrors}

\* enum WalletError { IdNotFound, InvalidMessage(String), TxDep(..), Other(..) }
IdNotFound == [tag |-> "IdNotFound"]

InvalidMessage(s) == [tag |-> "InvalidMessage", inner |-> s]

TxDep(e) == [tag |-> "TxDep", inner |-> e]

Other(x) == [tag |-> "Other", inner |-> x]

\* a conversion that flattens the provider error into the wallet's own variants
From_TxDepProviderError_Flatten(e) == IF e.tag = "Other" THEN Other(e.inner) ELSE TxDep(e)

\* a conversion that keeps the TxDep variant but forgets which error it wraps
From_TxDepProviderError_Forget(e) == TxDep(NotFound)

\* impl From<TxDepProviderError> for WalletError, derived by #[from]
From_TxDepProviderError(e) == TxDep(e)

\* impl From<Box<dyn Error>> for WalletError, derived by #[from]
From_Box_WalletError(x) == Other(x)

\* what a caller gets back by matching on WalletError::TxDep(inner)
Recover(w) == IF w.tag = "TxDep" THEN w.inner ELSE None

\* ---------------------------------------------------------------- EmptyTxDepProvider
\* pub struct EmptyTxDepProvider;   (a unit struct: one value, no fields)
EmptyTxDepProvider == [type |-> "EmptyTxDepProvider"]

\* a provider that remembers it was asked (state an implementation could add)
Warm == [type |-> "EmptyTxDepProvider", warm |-> TRUE]

\* a get_tx that answers NotFound the first time and a failure afterwards
get_tx_Stateful(self, tx_hash) ==
    IF self = EmptyTxDepProvider
    THEN [self |-> Warm, result |-> Err(NotFound)]
    ELSE [self |-> self, result |-> Err(TxDepOther(1))]

get_tx(self, tx_hash) == [self |-> self, result |-> Err(NotFound)]

\* a get_output that records the call in the provider
get_output_Touch(self, out_point) == [self |-> Warm, result |-> Err(NotFound)]

get_output(self, out_point) == [self |-> self, result |-> Err(NotFound)]

\* a get_output_data that fabricates empty data
get_output_data_Default(self, out_point) == [self |-> self, result |-> Ok(<<>>)]

get_output_data(self, out_point) == [self |-> self, result |-> Err(NotFound)]

get_header(self, block_hash) == [self |-> self, result |-> Err(NotFound)]

Ops == {"get_tx", "get_output", "get_output_data", "get_header"}

\* dynamic dispatch through &mut dyn TransactionDependencyProvider
Call(op, self, key) ==
    CASE op = "get_tx" -> get_tx(self, key)
      [] op = "get_output" -> get_output(self, key)
      [] op = "get_output_data" -> get_output_data(self, key)
      [] op = "get_header" -> get_header(self, key)

\* one lookup on provider p by sign call c (0: a caller outside sign)
Lookup(c, p, op, key) ==
    LET r == Call(op, provider[p], key) IN
    /\ Len(log) < MaxLog
    /\ provider' = [provider EXCEPT ![p] = r.self]
    /\ log' = Append(log, [call |-> c, provider |-> p, op |-> op, key |-> key, result |-> r.result])

\* ---------------------------------------------------------------- initial state
Init ==
    /\ provider = [p \in Providers |-> EmptyTxDepProvider]
    /\ log = <<>>
    /\ depErr = None
    /\ walletErr = None
    /\ nativeErr = None
    /\ borrow = [p \in Providers |-> 0]
    /\ pc = [t \in Threads |-> "idle"]
    /\ prov = [t \in Threads |-> 0]
    /\ tx = [t \in Threads |-> 0]
    /\ callId = [t \in Threads |-> 0]
    /\ nextCall = 1

\* ---------------------------------------------------------------- actions
\* the four trait methods, called directly on a provider nobody has borrowed
GetTx(p, k) ==
    /\ borrow[p] = 0
    /\ Lookup(0, p, "get_tx", k)
    /\ UNCHANGED <<depErr, walletErr, nativeErr, borrow, pc, prov, tx, callId, nextCall>>

GetOutput(p, k) ==
    /\ borrow[p] = 0
    /\ Lookup(0, p, "get_output", k)
    /\ UNCHANGED <<depErr, walletErr, nativeErr, borrow, pc, prov, tx, callId, nextCall>>

GetOutputData(p, k) ==
    /\ borrow[p] = 0
    /\ Lookup(0, p, "get_output_data", k)
    /\ UNCHANGED <<depErr, walletErr, nativeErr, borrow, pc, prov, tx, callId, nextCall>>

GetHeader(p, k) ==
    /\ borrow[p] = 0
    /\ Lookup(0, p, "get_header", k)
    /\ UNCHANGED <<depErr, walletErr, nativeErr, borrow, pc, prov, tx, callId, nextCall>>

\* WalletError::from(e) for a provider error e (what `?` applies inside sign)
WrapTxDep(e) ==
    /\ depErr' = e
    /\ walletErr' = From_TxDepProviderError(e)
    /\ UNCHANGED <<provider, log, nativeErr, borrow, pc, prov, tx, callId, nextCall>>

\* WalletError::from(x) for a backend error x (hardware wallet or io error)
WrapBox(x) ==
    /\ nativeErr' = From_Box_WalletError(x)
    /\ UNCHANGED <<provider, log, depErr, walletErr, borrow, pc, prov, tx, callId, nextCall>>

\* a shared borrow (&dyn) can always be taken
CanBorrowShared(b, p) == TRUE

\* an exclusive borrow (&mut dyn) needs the provider to be unborrowed
CanBorrowMut(b, p) == b[p] = 0

\* thread t enters Wallet::sign for transaction x (its dependency has key x)
\* with tx_dep_provider = &mut provider p
SignEnter(t, p, x) ==
    /\ pc[t] = "idle"
    /\ nextCall <= MaxCalls
    /\ CanBorrowMut(borrow, p)
    /\ borrow' = [borrow EXCEPT ![p] = nextCall]
    /\ pc' = [pc EXCEPT ![t] = "signing"]
    /\ prov' = [prov EXCEPT ![t] = p]
    /\ tx' = [tx EXCEPT ![t] = x]
    /\ callId' = [callId EXCEPT ![t] = nextCall]
    /\ nextCall' = nextCall + 1
    /\ UNCHANGED <<provider, log, depErr, walletErr, nativeErr>>

\* the sign call of thread t looks up a dependency of its transaction
\* through its tx_dep_provider
SignLookup(t, op) ==
    /\ pc[t] = "signing"
    /\ Lookup(callId[t], prov[t], op, tx[t])
    /\ UNCHANGED <<depErr, walletErr, nativeErr, borrow, pc, prov, tx, callId, nextCall>>

\* the sign call of thread t returns; its borrow of the provider ends
SignReturn(t) ==
    /\ pc[t] = "signing"
    /\ borrow' = [borrow EXCEPT ![prov[t]] = 0]
    /\ pc' = [pc EXCEPT ![t] = "idle"]
    /\ prov' = [prov EXCEPT ![t] = 0]
    /\ tx' = [tx EXCEPT ![t] = 0]
    /\ callId' = [callId EXCEPT ![t] = 0]
    /\ UNCHANGED <<provider, log, depErr, walletErr, nativeErr, nextCall>>

\* ---------------------------------------------------------------- specifications
\* lookups on providers
Next ==
    \/ \E p \in Providers, k \in Keys : GetTx(p, k)
    \/ \E p \in Providers, k \in Keys : GetOutput(p, k)
    \/ \E p \in Providers, k \in Keys : GetOutputData(p, k)
    \/ \E p \in Providers, k \in Keys : GetHeader(p, k)

Spec == Init /\ [][Next]_vars

\* error conversions
NextWrap ==
    \/ \E e \in TxDepProviderErrorSet : WrapTxDep(e)
    \/ \E x \in BoxErrors : WrapBox(x)

SpecWrap == Init /\ [][NextWrap]_vars

\* concurrent sign calls sharing provider instances
NextSign ==
    \/ \E t \in Threads, p \in Providers, x \in Txs : SignEnter(t, p, x)
    \/ \E t \in Threads, op \in Ops : SignLookup(t, op)
    \/ \E t \in Threads : SignReturn(t)

SpecSign == Init /\ [][NextSign]_vars

\* ---------------------------------------------------------------- properties
\* C1: every lookup made on an EmptyTxDepProvider, whatever its kind, key and
\* the lookups before it, returned Err(TxDepProviderError::NotFound): never an
\* Ok value and never the Other variant.
C1_AlwaysNotFound ==
    \A i \in DOMAIN log :
        /\ ~log[i].result.ok
        /\ log[i].result = Err(NotFound)

\* all four kinds of lookup have been made, with more than one key, and the
\* last one came after three earlier lookups
C1_Witness ==
    /\ Len(log) = MaxLog
    /\ \E i, j \in DOMAIN log : log[i].key # log[j].key /\ log[i].op # log[j].op
    /\ \E i \in DOMAIN log : log[i].op = "get_output_data"

\* C2: the provider error wrapped into WalletError::TxDep can be recovered from
\* the wrapped value with its original kind and payload.
C2_WrapFidelity ==
    depErr # None => Recover(walletErr) = depErr

\* an Other error with a payload has been wrapped
C2_Witness ==
    /\ depErr = TxDepOther(MaxBoxErr)
    /\ walletErr # None

\* C7: two lookups of the same kind with the same key on the same
\* EmptyTxDepProvider gave the same result, wherever they stand in the
\* sequence of lookups.
C7_Idempotent ==
    \A i, j \in DOMAIN log :
        (log[i].provider = log[j].provider /\ log[i].op = log[j].op /\ log[i].key = log[j].key)
            => log[i].result = log[j].result

\* the same lookup was made twice on one provider with another lookup in between
C7_Witness ==
    \E i, j, m \in DOMAIN log :
        /\ i < m /\ m < j
        /\ log[i].provider = log[j].provider /\ log[i].op = log[j].op /\ log[i].key = log[j].key
        /\ log[m].provider = log[i].provider /\ log[m].op # log[i].op

\* C8: a lookup leaves every provider as it was, and its result is the one a
\* provider that was never used gives for that lookup.
C8_NoSideEffect ==
    [][/\ provider' = provider
       /\ log' # log =>
            LET e == log'[Len(log')] IN
            e.result = Call(e.op, EmptyTxDepProvider, e.key).result]_vars

\* a provider has served lookups of two different kinds with different keys
C8_Witness ==
    \E i, j \in DOMAIN log :
        /\ i < j
        /\ log[i].provider = log[j].provider
        /\ log[i].op = "get_output" /\ log[j].op # "get_output"
        /\ log[i].key # log[j].key

\* C10: a wrapped provider error is always the TxDep variant, never Other,
\* IdNotFound or InvalidMessage, and differs from every WalletError::Other
\* made from a backend error, also when both carry the same payload.
C10_Distinguishable ==
    depErr # None =>
        /\ walletErr.tag = "TxDep"
        /\ walletErr.tag \notin {"Other", "IdNotFound", "InvalidMessage"}
        /\ \A x \in BoxErrors : walletErr # Other(x)
        /\ nativeErr # None => walletErr # nativeErr

\* a provider's Other(x) was wrapped and a backend error with the same x too
C10_Witness ==
    \E x \in BoxErrors :
        /\ depErr = TxDepOther(x)
        /\ walletErr # None
        /\ nativeErr = Other(x)

\* C6: a provider instance is held by at most one sign call at a time, and
\* the lookups two sign calls issue on one provider are never interleaved.
C6_Exclusive ==
    /\ \A t1, t2 \in Threads :
        (t1 # t2 /\ pc[t1] = "signing" /\ pc[t2] = "signing") => prov[t1] # prov[t2]
    /\ \A t \in Threads : pc[t] = "signing" => borrow[prov[t]] = callId[t]
    /\ \A i, j, k \in DOMAIN log :
        (i < j /\ j < k /\ log[i].provider = log[j].provider /\ log[i].call = log[k].call)
            => log[j].call = log[i].call

\* a sign call holds a provider that an earlier sign call used before it, both
\* have issued lookups on it, and another caller is waiting to sign
C6_Witness ==
    \E t, u \in Threads :
        /\ t # u /\ pc[t] = "signing" /\ pc[u] = "idle"
        /\ borrow[prov[t]] = callId[t]
        /\ \E i, j \in DOMAIN log :
            /\ i < j
            /\ log[i].provider = prov[t] /\ log[j].provider = prov[t]
            /\ log[i].call # log[j].call
            /\ log[j].call = callId[t]

====
